---- MODULE Spec2Model ----
(***************************************************************************)
(* Gradient-descent visualiser: the numerical core (optimizers, metrics    *)
(* tracker, data model) and the two step engines that drive it, the Tk     *)
(* front end (Linear_Regressio.py) and the OpenGL front end (main.py).     *)
(*                                                                         *)
(* Real numbers are fixed-point integers: a value v stands for v / Scale,  *)
(* a coefficient c (learning rate, momentum, beta) for c / CoefScale, and  *)
(* every floating-point multiplication or division rounds to nearest.      *)
(***************************************************************************)
EXTENDS Integers, Sequences, FiniteSets, TLC

\* ------------------------------------------------------------------ bounds
MAX_ITER == 2          \* cfg.MAX_ITER, the iteration cap (500 in the program)
N_POINTS == 3          \* cfg.N_POINTS, points per dataset (50 in the program)
MaxAside == 1          \* display refreshes and dataset switches explored in a behaviour
MaxCalls == 2          \* direct calls of update, and of step, explored in a behaviour

\* ------------------------------------------------------- fixed-point layer
Scale == 10 * 10
CoefScale == 10 * Scale

Abs(a) == IF a < 0 THEN -a ELSE a

\* a / b rounded to nearest, ties away from zero (b > 0)
RDivNat(a, b) == (a \div b) + (IF 2 * (a % b) >= b THEN 1 ELSE 0)
RDiv(a, b) == IF a >= 0 THEN RDivNat(a, b) ELSE -RDivNat(-a, b)

\* product of two values (the whole part of a is multiplied exactly)
MulNat(a, b) == (a \div Scale) * b + RDivNat((a % Scale) * b, Scale)
Mul(a, b) == IF (a >= 0) = (b >= 0) THEN MulNat(Abs(a), Abs(b))
                                    ELSE -MulNat(Abs(a), Abs(b))
\* coefficient times value
CMul(c, a) == RDiv(c * a, CoefScale)
\* quotient of two values, as a value
FDiv(a, b) == IF Abs(a) <= 20000000 THEN RDiv(a * Scale, b)
                                    ELSE RDiv(a, RDiv(b, Scale))

RECURSIVE SqrtSearch(_, _, _)
SqrtSearch(n, lo, hi) ==
    IF lo >= hi THEN lo
    ELSE LET mid == (lo + hi + 1) \div 2
         IN IF mid * mid <= n THEN SqrtSearch(n, mid, hi)
                              ELSE SqrtSearch(n, lo, mid - 1)
\* np.sqrt of a value, as a value
Sqrt(a) == IF a <= 20000000 THEN SqrtSearch(a * Scale, 0, 46340)
                             ELSE SqrtSearch(a, 0, 46340) * SqrtSearch(Scale, 0, Scale)

\* b ** t for a coefficient b
RECURSIVE Pow(_, _)
Pow(b, t) == IF t = 0 THEN CoefScale ELSE RDiv(b * Pow(b, t - 1), CoefScale)

RECURSIVE SumSeq(_)
SumSeq(s) == IF s = <<>> THEN 0 ELSE Head(s) + SumSeq(Tail(s))

RECURSIVE MinSeq(_)
MinSeq(s) == IF Len(s) = 1 THEN s[1]
             ELSE LET m == MinSeq(Tail(s)) IN IF s[1] < m THEN s[1] ELSE m
RECURSIVE MaxSeq(_)
MaxSeq(s) == IF Len(s) = 1 THEN s[1]
             ELSE LET m == MaxSeq(Tail(s)) IN IF s[1] > m THEN s[1] ELSE m

\* ------------------------------------------------------------ configuration
LEARNING_RATE == CoefScale \div 100      \* 0.01
INITIAL_S == 0 * Scale                   \* 0.0
INITIAL_I == 5 * Scale                   \* 5.0
TRUE_S == (3 * Scale) \div 2             \* 1.5
TRUE_I == 2 * Scale                      \* 2.0
DELAY == 50

\* ------------------------------------------------------------- optimizers
SGD(learning_rate) == [kind |-> "SGD", learning_rate |-> learning_rate]

Momentum(learning_rate, momentum) ==
    [kind |-> "Momentum", learning_rate |-> learning_rate, momentum |-> momentum,
     velocity_slope |-> 0, velocity_intercept |-> 0]

\* epsilon, 1e-8 in the program, is the smallest positive value
Adam(learning_rate) ==
    [kind |-> "Adam", learning_rate |-> learning_rate,
     beta1 |-> (9 * CoefScale) \div 10, beta2 |-> CoefScale - 1, epsilon |-> 1,
     m_slope |-> 0, m_intercept |-> 0, v_slope |-> 0, v_intercept |-> 0, t |-> 0]

\* each step returns [opt, slope, intercept]: the instance after the call and
\* the pair it returns
SGD_step(o, slope, intercept, d_slope, d_intercept) ==
    [opt |-> o,
     slope |-> slope - CMul(o.learning_rate, d_slope),
     intercept |-> intercept - CMul(o.learning_rate, d_intercept)]

\* a step that moves by the velocity of the call before and then updates it
Momentum_step_stale_velocity(o, slope, intercept, d_slope, d_intercept) ==
    LET vs == CMul(o.momentum, o.velocity_slope) - CMul(o.learning_rate, d_slope)
        vi == CMul(o.momentum, o.velocity_intercept) - CMul(o.learning_rate, d_intercept)
    IN [opt |-> [o EXCEPT !.velocity_slope = vs, !.velocity_intercept = vi],
        slope |-> slope + o.velocity_slope,
        intercept |-> intercept + o.velocity_intercept]

Momentum_step(o, slope, intercept, d_slope, d_intercept) ==
    LET vs == CMul(o.momentum, o.velocity_slope) - CMul(o.learning_rate, d_slope)
        vi == CMul(o.momentum, o.velocity_intercept) - CMul(o.learning_rate, d_intercept)
    IN [opt |-> [o EXCEPT !.velocity_slope = vs, !.velocity_intercept = vi],
        slope |-> slope + vs,
        intercept |-> intercept + vi]

\* a step whose intercept update reads the first moment of the slope
Adam_step_shared_moment(o, slope, intercept, d_slope, d_intercept) ==
    LET t  == o.t + 1
        ms == CMul(o.beta1, o.m_slope) + CMul(CoefScale - o.beta1, d_slope)
        mi == CMul(o.beta1, o.m_intercept) + CMul(CoefScale - o.beta1, d_intercept)
        vs == CMul(o.beta2, o.v_slope) + CMul(CoefScale - o.beta2, Mul(d_slope, d_slope))
        vi == CMul(o.beta2, o.v_intercept)
                 + CMul(CoefScale - o.beta2, Mul(d_intercept, d_intercept))
        m_hat_slope     == RDiv(ms * CoefScale, CoefScale - Pow(o.beta1, t))
        v_hat_slope     == RDiv(vs * CoefScale, CoefScale - Pow(o.beta2, t))
        v_hat_intercept == RDiv(vi * CoefScale, CoefScale - Pow(o.beta2, t))
    IN [opt |-> [o EXCEPT !.t = t, !.m_slope = ms, !.m_intercept = mi,
                          !.v_slope = vs, !.v_intercept = vi],
        slope |-> slope - FDiv(CMul(o.learning_rate, m_hat_slope),
                               Sqrt(v_hat_slope) + o.epsilon),
        intercept |-> intercept - FDiv(CMul(o.learning_rate, m_hat_slope),
                                       Sqrt(v_hat_intercept) + o.epsilon)]

Adam_step(o, slope, intercept, d_slope, d_intercept) ==
    LET t  == o.t + 1
        ms == CMul(o.beta1, o.m_slope) + CMul(CoefScale - o.beta1, d_slope)
        mi == CMul(o.beta1, o.m_intercept) + CMul(CoefScale - o.beta1, d_intercept)
        vs == CMul(o.beta2, o.v_slope) + CMul(CoefScale - o.beta2, Mul(d_slope, d_slope))
        vi == CMul(o.beta2, o.v_intercept)
                 + CMul(CoefScale - o.beta2, Mul(d_intercept, d_intercept))
        m_hat_slope     == RDiv(ms * CoefScale, CoefScale - Pow(o.beta1, t))
        m_hat_intercept == RDiv(mi * CoefScale, CoefScale - Pow(o.beta1, t))
        v_hat_slope     == RDiv(vs * CoefScale, CoefScale - Pow(o.beta2, t))
        v_hat_intercept == RDiv(vi * CoefScale, CoefScale - Pow(o.beta2, t))
    IN [opt |-> [o EXCEPT !.t = t, !.m_slope = ms, !.m_intercept = mi,
                          !.v_slope = vs, !.v_intercept = vi],
        slope |-> slope - FDiv(CMul(o.learning_rate, m_hat_slope),
                               Sqrt(v_hat_slope) + o.epsilon),
        intercept |-> intercept - FDiv(CMul(o.learning_rate, m_hat_intercept),
                                       Sqrt(v_hat_intercept) + o.epsilon)]

\* optimizer.step, dispatched on the instance's class
OptStep(o, slope, intercept, d_slope, d_intercept) ==
    CASE o.kind = "SGD"      -> SGD_step(o, slope, intercept, d_slope, d_intercept)
      [] o.kind = "Momentum" -> Momentum_step(o, slope, intercept, d_slope, d_intercept)
      [] o.kind = "Adam"     -> Adam_step(o, slope, intercept, d_slope, d_intercept)

\* a reset that leaves the velocity as it is
Momentum_reset_nothing(o) == o

Momentum_reset(o) == [o EXCEPT !.velocity_slope = 0, !.velocity_intercept = 0]

Adam_reset(o) == [o EXCEPT !.m_slope = 0, !.m_intercept = 0,
                           !.v_slope = 0, !.v_intercept = 0, !.t = 0]

\* hasattr(optimizer, "reset"): SGD defines no reset method
HasReset(o) == o.kind \in {"Momentum", "Adam"}

\* if hasattr(optimizer, "reset"): optimizer.reset()
ResetIfAble(o) ==
    IF ~HasReset(o) THEN o
    ELSE IF o.kind = "Momentum" THEN Momentum_reset(o) ELSE Adam_reset(o)

\* optimizer.reset() called without the hasattr test: the instance after the
\* call and the exception raised, "None" when the method exists and returns
Optimizer_reset(o) ==
    IF HasReset(o) THEN [opt |-> ResetIfAble(o), raised |-> "None"]
    ELSE [opt |-> o, raised |-> "AttributeError"]

OptimizerNames == {"SGD", "Momentum", "Adam"}

\* ---------------------------------------------------------- metrics tracker
MetricsTracker ==
    [mse_history |-> <<>>, mae_history |-> <<>>, r2_history |-> <<>>,
     iteration_history |-> <<>>, current_iteration |-> 0]

\* sklearn mean_squared_error: the mean of the squared residuals (in 1/Scale^2)
mean_squared_error(y_true, y_pred) ==
    RDiv(SumSeq([i \in 1..Len(y_true) |-> (y_true[i] - y_pred[i]) * (y_true[i] - y_pred[i])]),
         Len(y_true))

\* sklearn mean_absolute_error
mean_absolute_error(y_true, y_pred) ==
    RDiv(SumSeq([i \in 1..Len(y_true) |-> Abs(y_true[i] - y_pred[i])]), Len(y_true))

\* the R^2 score as sklearn defines it: with ss_tot 0, 1 on a perfect fit
r2_score_sklearn(y_true, y_pred) ==
    LET mean   == RDiv(SumSeq(y_true), Len(y_true))
        ss_res == SumSeq([i \in 1..Len(y_true) |->
                            (y_true[i] - y_pred[i]) * (y_true[i] - y_pred[i])])
        ss_tot == SumSeq([i \in 1..Len(y_true) |->
                            (y_true[i] - mean) * (y_true[i] - mean)])
    IN IF ss_tot # 0 THEN Scale - FDiv(ss_res, ss_tot)
       ELSE IF ss_res = 0 THEN Scale ELSE 0

\* a score that is the bare ratio ss_res / ss_tot
r2_score_ratio(y_true, y_pred) ==
    LET mean   == RDiv(SumSeq(y_true), Len(y_true))
        ss_res == SumSeq([i \in 1..Len(y_true) |->
                            (y_true[i] - y_pred[i]) * (y_true[i] - y_pred[i])])
        ss_tot == SumSeq([i \in 1..Len(y_true) |->
                            (y_true[i] - mean) * (y_true[i] - mean)])
    IN IF ss_tot # 0 THEN FDiv(ss_res, ss_tot) ELSE 0

\* the R^2 score of MetricsTracker.update, 0 when ss_tot is 0
r2_score(y_true, y_pred) ==
    LET mean   == RDiv(SumSeq(y_true), Len(y_true))
        ss_res == SumSeq([i \in 1..Len(y_true) |->
                            (y_true[i] - y_pred[i]) * (y_true[i] - y_pred[i])])
        ss_tot == SumSeq([i \in 1..Len(y_true) |->
                            (y_true[i] - mean) * (y_true[i] - mean)])
    IN IF ss_tot # 0 THEN Scale - FDiv(ss_res, ss_tot) ELSE 0

\* an update that returns before the R^2 record is appended
MetricsTracker_update_without_r2(tr, y_true, y_pred, iter) ==
    [current_iteration |-> iter,
     iteration_history |-> Append(tr.iteration_history, iter),
     mse_history |-> Append(tr.mse_history, mean_squared_error(y_true, y_pred)),
     mae_history |-> Append(tr.mae_history, mean_absolute_error(y_true, y_pred)),
     r2_history  |-> tr.r2_history]

MetricsTracker_update(tr, y_true, y_pred, iter) ==
    [current_iteration |-> iter,
     iteration_history |-> Append(tr.iteration_history, iter),
     mse_history |-> Append(tr.mse_history, mean_squared_error(y_true, y_pred)),
     mae_history |-> Append(tr.mae_history, mean_absolute_error(y_true, y_pred)),
     r2_history  |-> Append(tr.r2_history, r2_score(y_true, y_pred))]

MetricsTracker_get_current(tr) ==
    IF tr.mse_history = <<>> THEN <<0, 0, 0>>
    ELSE <<tr.mse_history[Len(tr.mse_history)], tr.mae_history[Len(tr.mae_history)],
           tr.r2_history[Len(tr.r2_history)]>>

\* a clear that forgets to empty the histories
MetricsTracker_keep(tr) == tr

MetricsTracker_clear(tr) ==
    [mse_history |-> <<>>, mae_history |-> <<>>, r2_history |-> <<>>,
     iteration_history |-> <<>>, current_iteration |-> 0]

\* a summary that reports the last MSE as the minimum and the maximum
MetricsTracker_summary_of_last(tr) ==
    IF tr.mse_history = <<>> THEN <<>>
    ELSE [iterations |-> Len(tr.mse_history),
          final_mse |-> tr.mse_history[Len(tr.mse_history)],
          min_mse |-> tr.mse_history[Len(tr.mse_history)],
          max_mse |-> tr.mse_history[Len(tr.mse_history)],
          final_mae |-> tr.mae_history[Len(tr.mae_history)],
          final_r2 |-> tr.r2_history[Len(tr.r2_history)]]

\* summary(): the empty dict on an empty history, else the six statistics
MetricsTracker_summary(tr) ==
    IF tr.mse_history = <<>> THEN <<>>
    ELSE [iterations |-> Len(tr.mse_history),
          final_mse |-> tr.mse_history[Len(tr.mse_history)],
          min_mse |-> MinSeq(tr.mse_history),
          max_mse |-> MaxSeq(tr.mse_history),
          final_mae |-> tr.mae_history[Len(tr.mae_history)],
          final_r2 |-> tr.r2_history[Len(tr.r2_history)]]

\* ------------------------------------------------------ datasets and model
\* the seeds the random generator may be in; 42 is the one DataModel is built with
Seeds == {7, 42}
\* the generator states load_dataset is explored in
LoadSeeds == {7}

\* np.linspace(0, 10, n)
linspace(n) == [i \in 1..n |-> RDiv(10 * Scale * (i - 1), n - 1)]

\* the i-th draw of np.random.normal(0, std) after np.random.seed(seed)
normal(seed, std, i) == CMul(std, (((seed * (i + 3) * 17) % 9) - 4) * (Scale \div 4))

\* bounds whose Y_RANGE is the bare difference Y_MAX - Y_MIN
DataModel_bounds_unfloored(X, Y) ==
    [X |-> X, Y |-> Y, N |-> Len(X),
     X_MAX |-> MaxSeq(X), X_MIN |-> MinSeq(X),
     Y_MAX |-> MaxSeq(Y), Y_MIN |-> MinSeq(Y),
     Y_RANGE |-> MaxSeq(Y) - MinSeq(Y)]

\* DataModel.generate: X, Y and the bounds derived from them, set together
DataModel_bounds(X, Y) ==
    [X |-> X, Y |-> Y, N |-> Len(X),
     X_MAX |-> MaxSeq(X), X_MIN |-> MinSeq(X),
     Y_MAX |-> MaxSeq(Y), Y_MIN |-> MinSeq(Y),
     Y_RANGE |-> IF MaxSeq(Y) - MinSeq(Y) > 1 THEN MaxSeq(Y) - MinSeq(Y) ELSE 1]

DataModel_draw(seed) ==
    LET X == linspace(N_POINTS)
        Y == [i \in 1..N_POINTS |->
                Mul(TRUE_S, X[i]) + TRUE_I + normal(seed, (3 * CoefScale) \div 2, i)]
    IN DataModel_bounds(X, Y)

\* what generate leaves in the model for each seed, computed once
DataModel_drawn == [seed \in Seeds |-> DataModel_draw(seed)]

DataModel_generate(seed) == DataModel_drawn[seed]

\* np.sin for an angle in [0, 2 pi], by Bhaskara's rational approximation
Pi == (314 * Scale) \div 100
SinHalf(a) == FDiv(16 * Mul(a, Pi - a), 5 * Mul(Pi, Pi) - 4 * Mul(a, Pi - a))
Sin(a) == IF a <= Pi THEN SinHalf(a) ELSE -SinHalf(a - Pi)

\* np.exp(-y) for y >= 0: e^-1 per whole unit, a cubic for the fraction
RECURSIVE ExpNeg(_)
ExpNeg(y) ==
    IF y >= Scale THEN Mul((368 * Scale) \div 1000, ExpNeg(y - Scale))
    ELSE Scale - y + RDiv(Mul(y, y), 2) - RDiv(Mul(Mul(y, y), y), 6)

DatasetTypes == {"linear", "polynomial", "sinusoidal", "exponential"}

\* DataGenerator.polynomial / sinusoidal / exponential / noisy_linear as
\* load_dataset calls them; the generator's state is whatever seed it is in
DataGenerator_draw(dataset_type, seed) ==
    LET X == linspace(N_POINTS)
        Y == [i \in 1..N_POINTS |->
               CASE dataset_type = "polynomial" ->
                      Mul(Mul(Scale \div 2, X[i]), X[i]) + Mul((3 * Scale) \div 10, X[i])
                        + (2 * Scale) \div 100 + normal(seed, CoefScale, i)
                 [] dataset_type = "sinusoidal" ->
                      2 * Sin(Mul(Scale \div 2, X[i])) + 5 * Scale
                        + normal(seed, CoefScale \div 2, i)
                 [] dataset_type = "exponential" ->
                      10 * ExpNeg(Mul((9 * Scale) \div 10, X[i])) + normal(seed, CoefScale, i)
                 [] OTHER ->
                      Mul((3 * Scale) \div 2, X[i]) + 2 * Scale
                        + normal(seed, (3 * CoefScale) \div 2, i)]
    IN <<X, Y>>

\* the draws of each dataset type for each seed, computed once
DataGenerator_drawn ==
    [dataset_type \in DatasetTypes |-> [seed \in Seeds |-> DataGenerator_draw(dataset_type, seed)]]

DataGenerator(dataset_type, seed) == DataGenerator_drawn[dataset_type][seed]

\* ------------------------------------------- generation, called directly
\* numpy's global generator: the seed it was last given and the number of
\* values drawn since
RandomState(seed) == [seed |-> seed, drawn |-> 0]

\* seed=None, the default of every generator
NoSeed == -1

\* a seeding that leaves the generator where it is
np_random_seed_ignored(rng, seed) == rng

\* np.random.seed(seed)
np_random_seed(rng, seed) == RandomState(seed)

\* np.linspace(0, 10, n): ValueError for a negative n, the empty array for
\* n = 0, [0.] for n = 1
np_linspace(n) ==
    IF n < 0 THEN [raised |-> "ValueError", value |-> <<>>]
    ELSE [raised |-> "None", value |-> IF n = 1 THEN <<0>> ELSE linspace(n)]

\* np.random.normal(0, std, n): ValueError for a negative std or n, else the
\* next n draws of the generator
np_random_normal(rng, std, n) ==
    IF std < 0 \/ n < 0 THEN [raised |-> "ValueError", value |-> <<>>, rng |-> rng]
    ELSE [raised |-> "None",
          value |-> [i \in 1..n |-> normal(rng.seed, std, rng.drawn + i)],
          rng |-> [rng EXCEPT !.drawn = @ + n]]

\* DataGenerator.linear(n_points, noise_std=noise_std, seed=seed): the
\* exception raised, the pair returned (<<>> when none is) and the generator
\* after the call
DataGenerator_linear(rng, n_points, noise_std, seed) ==
    LET seeded == IF seed # NoSeed THEN np_random_seed(rng, seed) ELSE rng
        X == np_linspace(n_points)
        noise == np_random_normal(seeded, noise_std, n_points)
    IN IF X.raised # "None" THEN [raised |-> X.raised, data |-> <<>>, rng |-> seeded]
       ELSE IF noise.raised # "None"
       THEN [raised |-> noise.raised, data |-> <<>>, rng |-> seeded]
       ELSE [raised |-> "None",
             data |-> <<X.value,
                        [i \in 1..n_points |->
                           Mul((3 * Scale) \div 2, X.value[i]) + 2 * Scale + noise.value[i]]>>,
             rng |-> noise.rng]

\* model.generate(seed) on a DataModel m with cfg.N_POINTS = n_points and
\* cfg.NOISE_STD = noise_std; entropy is what np.random.seed() picks when
\* seed is omitted.  The fields are assigned one by one, up to the statement
\* that raises.
DataModel_generate_call(m, rng, n_points, noise_std, seed, entropy) ==
    LET seeded == np_random_seed(rng, IF seed # NoSeed THEN seed ELSE entropy)
        X == np_linspace(n_points)
        noise == np_random_normal(seeded, noise_std, n_points)
        Y == [i \in 1..n_points |-> Mul(TRUE_S, X.value[i]) + TRUE_I + noise.value[i]]
    IN IF X.raised # "None" THEN [raised |-> X.raised, model |-> m, rng |-> seeded]
       ELSE IF noise.raised # "None"
       THEN [raised |-> noise.raised, model |-> [m EXCEPT !.X = X.value], rng |-> seeded]
       ELSE IF n_points = 0
       THEN [raised |-> "ValueError",
             model |-> [m EXCEPT !.X = <<>>, !.Y = <<>>, !.N = 0], rng |-> noise.rng]
       ELSE [raised |-> "None", model |-> DataModel_bounds(X.value, Y), rng |-> noise.rng]

\* ------------------------------------------------------- one logical step
\* Y_pred = slope * X + intercept, elementwise
Predict(m, s, i) == [k \in 1..m.N |-> Mul(s, m.X[k]) + i]

\* d_intercept = (2 / N) * sum(error), d_slope = (2 / N) * sum(error * X)
Gradients(m, s, i) ==
    LET Y_pred == Predict(m, s, i)
        error  == [k \in 1..m.N |-> Y_pred[k] - m.Y[k]]
    IN [d_intercept |-> RDiv(2 * SumSeq(error), m.N),
        d_slope     |-> RDiv(2 * SumSeq([k \in 1..m.N |-> Mul(error[k], m.X[k])]), m.N)]

\* a step that moves the slope first and takes the intercept's gradient from
\* the half-updated pair
compute_step_in_place(m, s, i, o) ==
    LET g == Gradients(m, s, i)
        lr == [o EXCEPT !.learning_rate = LEARNING_RATE]
        first == OptStep(lr, s, i, g.d_slope, g.d_intercept)
        h == Gradients(m, first.slope, i)
    IN OptStep(lr, s, i, g.d_slope, h.d_intercept)

\* compute_step of main.py: the optimizer's learning rate is set from the
\* configuration, then one optimizer.step on gradients of the old parameters
compute_step(m, s, i, o) ==
    LET g == Gradients(m, s, i)
    IN OptStep([o EXCEPT !.learning_rate = LEARNING_RATE], s, i, g.d_slope, g.d_intercept)

\* =========================================================================
\* State: which front end runs, and the globals of each.
\*   tk: the module-level state of Linear_Regressio.py.  animation_job is
\*       "None", "pending" (the handle of a scheduled callback) or "expired"
\*       (the handle of a callback that fired or was cancelled);
\*       after_orphans counts scheduled gradient_descent_step callbacks whose
\*       handle animation_job no longer holds.
\*   gl: the locals of main() in main.py; pc is the position in the frame:
\*       "events" (event loop and UI actions) or "train" (training block).
\*   explored: how many display refreshes and dataset switches the Tk
\*       behaviour has made; it bounds the exploration by MaxAside, the
\*       program has no such counter.
\*   unit: a MetricsTracker and optimizer instances driven directly, call by
\*       call, with the arguments and results of the last call (UnitSpec);
\*       untouched while a front end runs.
VARIABLES ui, tk, gl, explored, unit

vars == <<ui, tk, gl, explored, unit>>

\* ------------------------------------------------------------ Tk front end
\* module-level state of Linear_Regressio.py, before handle_control("reset")
TkModule ==
    [current_slope |-> INITIAL_S, current_intercept |-> INITIAL_I,
     iteration_count |-> 0, animation_job |-> "None", after_orphans |-> 0,
     animation_running |-> FALSE, model |-> DataModel_generate(42),
     metrics_tracker |-> MetricsTracker, current_optimizer |-> SGD(LEARNING_RATE)]

\* a display update that records no metrics
update_without_record(st, Y_pred) == st

update_visualization(st, Y_pred) ==
    [st EXCEPT !.metrics_tracker =
        MetricsTracker_update(@, st.model.Y, Y_pred, st.iteration_count)]

refresh_visual_state(st) ==
    update_visualization(st, Predict(st.model, st.current_slope, st.current_intercept))

\* a cap test that never fires
NeverCapped(iteration_count) == FALSE

\* the cap test that opens run_one_iteration
CapReached(iteration_count) == iteration_count >= MAX_ITER

\* run_one_iteration: [st, ok], ok being its return value
run_one_iteration(st) ==
    IF CapReached(st.iteration_count) THEN [st |-> st, ok |-> FALSE]
    ELSE LET Y_pred == Predict(st.model, st.current_slope, st.current_intercept)
             g == Gradients(st.model, st.current_slope, st.current_intercept)
             r == OptStep([st.current_optimizer EXCEPT !.learning_rate = LEARNING_RATE],
                          st.current_slope, st.current_intercept, g.d_slope, g.d_intercept)
             moved == [st EXCEPT !.current_slope = r.slope,
                                 !.current_intercept = r.intercept,
                                 !.current_optimizer = r.opt]
             shown == update_visualization(moved, Y_pred)
         IN [st |-> [shown EXCEPT !.iteration_count = @ + 1], ok |-> TRUE]

\* animation_job = root.after(delay, gradient_descent_step)
root_after(st) ==
    [st EXCEPT !.after_orphans = IF st.animation_job = "pending" THEN @ + 1 ELSE @,
               !.animation_job = "pending"]

\* a cancel that leaves the callback scheduled
after_cancel_nothing(st) == st

\* if animation_job: root.after_cancel(animation_job)
after_cancel(st) ==
    IF st.animation_job = "pending" THEN [st EXCEPT !.animation_job = "expired"] ELSE st

\* a callback that steps without looking at the running flag
gradient_descent_unguarded(st) ==
    LET r == run_one_iteration(st)
    IN IF ~r.ok THEN [r.st EXCEPT !.animation_running = FALSE]
       ELSE root_after(r.st)

gradient_descent_step(st) ==
    IF ~st.animation_running THEN st
    ELSE LET r == run_one_iteration(st)
         IN IF ~r.ok THEN [r.st EXCEPT !.animation_running = FALSE]
            ELSE root_after(r.st)

\* a pause that leaves the flag and the timer alone
handle_pause_nothing(st) == st

handle_pause(st) == after_cancel([st EXCEPT !.animation_running = FALSE])

\* a regenerate that keeps the metrics history
regenerate_keep_history(st, seed) == [st EXCEPT !.model = DataModel_generate(seed)]

\* regenerate_data(): model.generate(seed=None) draws from fresh entropy
regenerate_data(st, seed) ==
    [st EXCEPT !.model = DataModel_generate(seed),
               !.metrics_tracker = MetricsTracker_clear(@)]

handle_reset(st) ==
    LET p == handle_pause(st)
        z == [p EXCEPT !.current_slope = INITIAL_S, !.current_intercept = INITIAL_I,
                       !.iteration_count = 0,
                       !.metrics_tracker = MetricsTracker_clear(@)]
    IN update_visualization(z, Predict(z.model, z.current_slope, z.current_intercept))

handle_regen(st, seed) ==
    LET p == regenerate_data(handle_pause(st), seed)
        z == [p EXCEPT !.current_slope = INITIAL_S, !.current_intercept = INITIAL_I,
                       !.iteration_count = 0]
    IN update_visualization(z, Predict(z.model, z.current_slope, z.current_intercept))

\* handle_control(action); seed is the generator state a "regen" draws from
handle_control(st, action, seed) ==
    CASE action = "start" /\ ~st.animation_running ->
            gradient_descent_step([st EXCEPT !.animation_running = TRUE])
      [] action = "pause" -> handle_pause(st)
      [] action = "step"  -> run_one_iteration(handle_pause(st)).st
      [] action = "reset" -> handle_reset(st)
      [] action = "regen" -> handle_regen(st, seed)
      [] OTHER -> st

switch_optimizer(st, opt_name) ==
    [st EXCEPT !.current_optimizer =
        CASE opt_name = "SGD"      -> SGD(LEARNING_RATE)
          [] opt_name = "Momentum" -> Momentum(LEARNING_RATE, (9 * CoefScale) \div 10)
          [] opt_name = "Adam"     -> Adam(LEARNING_RATE)
          [] OTHER -> @]

\* a dataset switch that also restarts the line
load_dataset_restarting(st, dataset_type, seed) ==
    LET d == DataGenerator(dataset_type, seed)
    IN [st EXCEPT !.model = DataModel_bounds(d[1], d[2]),
                  !.current_slope = INITIAL_S, !.current_intercept = INITIAL_I,
                  !.metrics_tracker = MetricsTracker_clear(@)]

\* a switch that stores the new points and keeps the bounds it had
load_dataset_keeping_bounds(st, dataset_type, seed) ==
    LET d == DataGenerator(dataset_type, seed)
    IN [st EXCEPT !.model = [@ EXCEPT !.X = d[1], !.Y = d[2]],
                  !.metrics_tracker = MetricsTracker_clear(@)]

load_dataset(st, dataset_type, seed) ==
    LET d == DataGenerator(dataset_type, seed)
    IN [st EXCEPT !.model = DataModel_bounds(d[1], d[2]),
                  !.metrics_tracker = MetricsTracker_clear(@)]

\* export_training_state: [st, state], the module state after the call and
\* the dict handed to DataExporter.export_model_state
export_training_state(st) ==
    [st |-> st,
     state |-> [slope |-> st.current_slope, intercept |-> st.current_intercept,
                iteration |-> st.iteration_count,
                metrics |-> MetricsTracker_summary(st.metrics_tracker)]]

TkActions == {"start", "pause", "step", "reset", "regen"}

\* the entries of the dataset menu the exploration selects
LoadTypes == {"polynomial", "sinusoidal"}

\* an optimizer whose accumulators are all zero
AtRest(o) ==
    CASE o.kind = "Momentum" -> o.velocity_slope = 0 /\ o.velocity_intercept = 0
      [] o.kind = "Adam" -> /\ o.m_slope = 0 /\ o.m_intercept = 0
                            /\ o.v_slope = 0 /\ o.v_intercept = 0 /\ o.t = 0
      [] OTHER -> TRUE

\* Exploration bound.  Tk's reset leaves the optimizer's accumulators as they
\* are, so runs chained through resets never repeat a state; a handler that
\* takes tk to st is explored unless it steps, from iteration 0, an optimizer
\* that still carries accumulators of an earlier run.
Explored(st) ==
    \/ st.iteration_count # tk.iteration_count + 1
    \/ tk.iteration_count > 0
    \/ AtRest(tk.current_optimizer)

\* a control button is pressed
TkControl(action) ==
    /\ ui = "tk"
    /\ \E seed \in (IF action = "regen" THEN Seeds ELSE {42}) :
          tk' = handle_control(tk, action, seed)
    /\ Explored(tk')
    /\ UNCHANGED <<ui, gl, explored, unit>>

\* a scheduled gradient_descent_step callback fires
TkTimer ==
    /\ ui = "tk"
    /\ \E fired \in {j \in {"job", "orphan"} :
                        IF j = "job" THEN tk.animation_job = "pending"
                                     ELSE tk.after_orphans > 0} :
          tk' = gradient_descent_step(
                   IF fired = "job" THEN [tk EXCEPT !.animation_job = "expired"]
                                    ELSE [tk EXCEPT !.after_orphans = @ - 1])
    /\ Explored(tk')
    /\ UNCHANGED <<ui, gl, explored, unit>>

\* the optimizer menu
TkSwitchOptimizer(opt_name) ==
    /\ ui = "tk"
    /\ tk' = switch_optimizer(tk, opt_name)
    /\ UNCHANGED <<ui, gl, explored, unit>>

\* the dataset menu
TkLoadDataset(dataset_type) ==
    /\ ui = "tk"
    /\ explored < MaxAside
    /\ \E seed \in LoadSeeds : tk' = load_dataset(tk, dataset_type, seed)
    /\ explored' = explored + 1
    /\ UNCHANGED <<ui, gl, unit>>

\* the "Show Residuals" checkbox: command=refresh_visual_state
TkToggleResiduals ==
    /\ ui = "tk"
    /\ explored < MaxAside
    /\ tk' = refresh_visual_state(tk)
    /\ explored' = explored + 1
    /\ UNCHANGED <<ui, gl, unit>>

\* the "Export State" button
TkExport ==
    /\ ui = "tk"
    /\ tk' = export_training_state(tk).st
    /\ UNCHANGED <<ui, gl, explored, unit>>

\* -------------------------------------------------------- OpenGL front end
MaxStepsPerFrame == 25
DelayMin == 1
DelayMax == 200
\* step_accumulator counts in units of 1 / AccScale of a step
AccScale == 1 + 1
\* dt * max(steps_per_second, 1.0) of one frame, in accumulator units
FrameIncs == {1, AccScale, 2 * AccScale + 1, (MaxStepsPerFrame + 1) * AccScale}
\* the delays the slider is dragged to
SliderDelays == {DelayMin, DelayMax}

make_optimizer(name) ==
    CASE name = "SGD"      -> SGD(LEARNING_RATE)
      [] name = "Momentum" -> Momentum(LEARNING_RATE, (9 * CoefScale) \div 10)
      [] name = "Adam"     -> Adam(LEARNING_RATE)
      [] OTHER             -> SGD(LEARNING_RATE)

\* tracker.update(model.Y, slope * model.X + intercept, iteration)
gl_record(g) ==
    [g EXCEPT !.tracker = MetricsTracker_update(@, g.model.Y,
                              Predict(g.model, g.slope, g.intercept), g.iteration)]

\* main() up to the frame loop
GLMain ==
    gl_record([model |-> DataModel_generate(42), tracker |-> MetricsTracker,
               slope |-> INITIAL_S, intercept |-> INITIAL_I, iteration |-> 0,
               optimizer_name |-> "SGD", optimizer |-> make_optimizer("SGD"),
               training |-> FALSE, delay_ms |-> DELAY, step_accumulator |-> 0,
               pc |-> "events"])

\* slope, intercept, _ = compute_step(...); tracker.update(...); iteration += 1
gl_logical_step(g) ==
    LET r == compute_step(g.model, g.slope, g.intercept, g.optimizer)
        moved == [g EXCEPT !.slope = r.slope, !.intercept = r.intercept,
                           !.optimizer = r.opt]
    IN [gl_record(moved) EXCEPT !.iteration = @ + 1]

\* a step guard that lets every iteration through
AnyIteration(iteration) == TRUE

\* the guard of "step": if iteration < cfg.MAX_ITER
StepAllowed(iteration) == iteration < MAX_ITER

gl_step(g) ==
    LET p == [g EXCEPT !.training = FALSE]
    IN IF StepAllowed(p.iteration) THEN gl_logical_step(p) ELSE p

gl_reset(g) ==
    LET z == [g EXCEPT !.training = FALSE, !.slope = INITIAL_S, !.intercept = INITIAL_I,
                       !.iteration = 0, !.tracker = MetricsTracker_clear(@)]
    IN [gl_record(z) EXCEPT !.optimizer = ResetIfAble(@), !.step_accumulator = 0]

\* model.generate() draws from fresh entropy
gl_regen(g, seed) ==
    LET z == [g EXCEPT !.training = FALSE, !.model = DataModel_generate(seed),
                       !.slope = INITIAL_S, !.intercept = INITIAL_I,
                       !.iteration = 0, !.tracker = MetricsTracker_clear(@)]
    IN [gl_record(z) EXCEPT !.optimizer = ResetIfAble(@), !.step_accumulator = 0]

\* a switch that renames the optimizer and keeps the instance
gl_rename_optimizer(g, name) == [g EXCEPT !.optimizer_name = name]

gl_set_optimizer(g, name) ==
    [g EXCEPT !.optimizer_name = name, !.optimizer = make_optimizer(name)]

Min(a, b) == IF a < b THEN a ELSE b

\* the bracket, minus and plus keys change delay_ms and zero the accumulator
\* as the slider's set_delay_ms does, and are explored through it
GLKeys == {"SPACE", "t", "p", "s", "r", "n", "1", "2", "3"}

\* the KEYDOWN branch of the event loop
gl_keydown(g, key, seed) ==
    CASE key = "SPACE" -> [g EXCEPT !.training = ~@]
      [] key = "t" -> [g EXCEPT !.training = TRUE]
      [] key = "p" -> [g EXCEPT !.training = FALSE]
      [] key = "s" -> gl_step(g)
      [] key = "r" -> gl_reset(g)
      [] key = "n" -> gl_regen(g, seed)
      [] key = "1" -> gl_set_optimizer(g, "SGD")
      [] key = "2" -> gl_set_optimizer(g, "Momentum")
      [] key = "3" -> gl_set_optimizer(g, "Adam")

\* the entry a button puts in the actions dict of ui.render
ui_action(n) == [name |-> n, arg |-> "-"]

\* the actions ui.render returns for one click or drag
GLActions ==
    {ui_action(n) : n \in {"none", "start", "pause", "step", "reset", "regen"}}
      \cup {[name |-> "set_optimizer", arg |-> o] : o \in OptimizerNames}
      \cup {[name |-> "set_delay_ms", arg |-> d] : d \in SliderDelays}

\* the dispatch on the actions of ui.render
gl_actions(g, a, seed) ==
    CASE a.name = "start" -> [g EXCEPT !.training = TRUE]
      [] a.name = "pause" -> [g EXCEPT !.training = FALSE]
      [] a.name = "step"  -> gl_step(g)
      [] a.name = "reset" -> gl_reset(g)
      [] a.name = "regen" -> gl_regen(g, seed)
      [] a.name = "set_optimizer" ->
            [gl_set_optimizer(g, a.arg) EXCEPT !.step_accumulator = 0]
      [] a.name = "set_delay_ms" -> [g EXCEPT !.delay_ms = a.arg, !.step_accumulator = 0]
      [] OTHER -> g

\* a frame loop that records metrics only for its last step
RECURSIVE gl_train_loop_one_record(_, _)
gl_train_loop_one_record(g, k) ==
    IF k = 0 THEN g
    ELSE IF g.iteration >= MAX_ITER THEN [g EXCEPT !.training = FALSE]
    ELSE LET r == gl_logical_step(g)
         IN gl_train_loop_one_record(IF k > 1 THEN [r EXCEPT !.tracker = g.tracker] ELSE r,
                                     k - 1)

\* for _ in range(steps_this_frame): stop at the cap, else one logical step
RECURSIVE gl_train_loop(_, _)
gl_train_loop(g, k) ==
    IF k = 0 THEN g
    ELSE IF g.iteration >= MAX_ITER THEN [g EXCEPT !.training = FALSE]
    ELSE gl_train_loop(gl_logical_step(g), k - 1)

\* the guard of the training block
TrainGuard(training, iteration) == training /\ iteration < MAX_ITER

\* the training block of a frame whose clock adds inc to the accumulator
gl_train(g, inc) ==
    IF TrainGuard(g.training, g.iteration)
    THEN LET acc == g.step_accumulator + inc
             steps_this_frame == Min(acc \div AccScale, MaxStepsPerFrame)
         IN IF steps_this_frame > 0
            THEN gl_train_loop([g EXCEPT !.step_accumulator = acc - steps_this_frame * AccScale],
                               steps_this_frame)
            ELSE [g EXCEPT !.step_accumulator = acc]
    ELSE g

\* one KEYDOWN event of the frame's event loop
GLKey(key) ==
    /\ ui = "gl"
    /\ gl.pc = "events"
    /\ \E seed \in (IF key = "n" THEN Seeds ELSE {42}) : gl' = gl_keydown(gl, key, seed)
    /\ UNCHANGED <<ui, tk, explored, unit>>

\* ui.render and the dispatch on what it returns
GLRender(a) ==
    /\ ui = "gl"
    /\ gl.pc = "events"
    /\ \E seed \in (IF a.name = "regen" THEN Seeds ELSE {42}) :
          gl' = [gl_actions(gl, a, seed) EXCEPT !.pc = "train"]
    /\ UNCHANGED <<ui, tk, explored, unit>>

\* the training block, which ends the frame
GLTrain(inc) ==
    /\ ui = "gl"
    /\ gl.pc = "train"
    /\ gl' = [gl_train(gl, inc) EXCEPT !.pc = "events"]
    /\ UNCHANGED <<ui, tk, explored, unit>>

\* ------------------------------------------------- direct calls (UnitSpec)
\* the vectors update is called with: constant ones, a perfect fit, a
\* prediction at the mean, and others
UnitVectors ==
    {<<0, 0>>, <<Scale, Scale>>, <<2 * Scale, 2 * Scale>>,
     <<0, 2 * Scale>>, <<Scale, 3 * Scale>>}
\* the parameters and gradients step is called with
UnitSlopes == {0, (3 * Scale) \div 2}
UnitIntercepts == {5 * Scale}
UnitGradients == {0, -8 * Scale, 12 * Scale}

\* the point counts, noise levels (as coefficients) and seeds generation is
\* called with
UnitCounts == {-1, 0, 1, N_POINTS}
UnitNoises == {-CoefScale, 0, (3 * CoefScale) \div 2}
UnitSeeds == Seeds \cup {NoSeed}

\* nothing called yet: a fresh tracker, SGD(lr), Momentum(lr, 0) and SGD(lr)
\* as the optimizer under test, and a DataModel as its constructor leaves it
UnitFresh(mode) ==
    [mode |-> mode,
     tracker |-> MetricsTracker, updates |-> 0, y_true |-> <<>>, y_pred |-> <<>>,
     sgd |-> SGD(LEARNING_RATE), momentum0 |-> Momentum(LEARNING_RATE, 0),
     optimizer |-> SGD(LEARNING_RATE), steps |-> 0, args |-> <<>>,
     sgd_out |-> <<>>, momentum0_out |-> <<>>, optimizer_out |-> <<>>,
     rng |-> RandomState(42), model |-> DataModel_generate(42), generations |-> 0,
     generator |-> "None", config |-> <<>>, raised |-> "None", data |-> <<>>]

\* tracker.update(y_true, y_pred, iteration), iteration counting the calls
UnitUpdate(y_true, y_pred) ==
    /\ unit.mode = "tracker"
    /\ unit.updates < MaxCalls
    /\ unit' = [unit EXCEPT !.tracker = MetricsTracker_update(@, y_true, y_pred, unit.updates),
                            !.updates = @ + 1, !.y_true = y_true, !.y_pred = y_pred]
    /\ UNCHANGED <<ui, tk, gl, explored>>

\* tracker.clear()
UnitClear ==
    /\ unit.mode = "tracker"
    /\ unit' = [unit EXCEPT !.tracker = MetricsTracker_clear(@),
                            !.updates = 0, !.y_true = <<>>, !.y_pred = <<>>]
    /\ UNCHANGED <<ui, tk, gl, explored>>

\* the pair a step returns
step_out(r) == <<r.slope, r.intercept>>

\* one step(slope, intercept, d_slope, d_intercept) on each of the three
\* instances, with the same arguments
UnitStep(slope, intercept, d_slope, d_intercept) ==
    /\ unit.mode = "optimizers"
    /\ unit.steps < MaxCalls
    /\ LET a == SGD_step(unit.sgd, slope, intercept, d_slope, d_intercept)
           b == Momentum_step(unit.momentum0, slope, intercept, d_slope, d_intercept)
           c == OptStep(unit.optimizer, slope, intercept, d_slope, d_intercept)
       IN unit' = [unit EXCEPT !.sgd = a.opt, !.momentum0 = b.opt, !.optimizer = c.opt,
                               !.sgd_out = step_out(a), !.momentum0_out = step_out(b),
                               !.optimizer_out = step_out(c), !.steps = @ + 1,
                               !.args = <<slope, intercept, d_slope, d_intercept>>]
    /\ UNCHANGED <<ui, tk, gl, explored>>

\* optimizer.reset() on the instance under test, where the class has one
UnitReset ==
    /\ unit.mode = "optimizers"
    /\ HasReset(unit.optimizer)
    /\ unit' = [unit EXCEPT !.optimizer = ResetIfAble(@)]
    /\ UNCHANGED <<ui, tk, gl, explored>>

\* a new instance under test
UnitCreate(name) ==
    /\ unit.mode = "optimizers"
    /\ unit' = [unit EXCEPT !.optimizer = make_optimizer(name)]
    /\ UNCHANGED <<ui, tk, gl, explored>>

\* X, Y = DataGenerator.linear(n_points, noise_std=noise_std, seed=seed)
UnitLinear(n_points, noise_std, seed) ==
    /\ unit.mode = "generation"
    /\ unit.generations < MaxCalls
    /\ LET r == DataGenerator_linear(unit.rng, n_points, noise_std, seed)
       IN unit' = [unit EXCEPT !.rng = r.rng, !.raised = r.raised, !.data = r.data,
                               !.generator = "DataGenerator.linear",
                               !.config = <<n_points, noise_std, seed>>,
                               !.generations = @ + 1]
    /\ UNCHANGED <<ui, tk, gl, explored>>

\* model.generate(seed) with cfg.N_POINTS = n_points, cfg.NOISE_STD = noise_std
UnitGenerate(n_points, noise_std, seed) ==
    /\ unit.mode = "generation"
    /\ unit.generations < MaxCalls
    /\ \E entropy \in Seeds :
          LET r == DataModel_generate_call(unit.model, unit.rng, n_points, noise_std,
                                           seed, entropy)
          IN unit' = [unit EXCEPT !.rng = r.rng, !.raised = r.raised, !.model = r.model,
                                  !.data = IF r.raised = "None" THEN <<r.model.X, r.model.Y>>
                                           ELSE <<>>,
                                  !.generator = "DataModel.generate",
                                  !.config = <<n_points, noise_std, seed>>,
                                  !.generations = @ + 1]
    /\ UNCHANGED <<ui, tk, gl, explored>>

UnitInit ==
    /\ ui = "unit"
    /\ tk = TkModule
    /\ gl = GLMain
    /\ explored = 0
    /\ unit \in {UnitFresh("tracker"), UnitFresh("optimizers"), UnitFresh("generation")}

UnitNext ==
    \/ \E y_true \in UnitVectors : \E y_pred \in UnitVectors : UnitUpdate(y_true, y_pred)
    \/ UnitClear
    \/ \E slope \in UnitSlopes : \E intercept \in UnitIntercepts :
          \E d_slope \in UnitGradients : \E d_intercept \in UnitGradients :
             UnitStep(slope, intercept, d_slope, d_intercept)
    \/ UnitReset
    \/ \E name \in OptimizerNames : UnitCreate(name)
    \/ \E n_points \in UnitCounts : \E noise_std \in UnitNoises : \E seed \in UnitSeeds :
          UnitLinear(n_points, noise_std, seed)
    \/ \E n_points \in UnitCounts : \E noise_std \in UnitNoises : \E seed \in UnitSeeds :
          UnitGenerate(n_points, noise_std, seed)

UnitSpec == UnitInit /\ [][UnitNext]_vars

\* ------------------------------------------------------------ specification
Init ==
    /\ ui \in {"tk", "gl"}
    /\ tk = IF ui = "tk" THEN handle_reset(TkModule) ELSE TkModule
    /\ gl = GLMain
    /\ explored = 0
    /\ unit = UnitFresh("off")

Next ==
    \/ \E action \in TkActions : TkControl(action)
    \/ TkTimer
    \/ \E opt_name \in OptimizerNames : TkSwitchOptimizer(opt_name)
    \/ \E dataset_type \in LoadTypes : TkLoadDataset(dataset_type)
    \/ TkToggleResiduals
    \/ TkExport
    \/ \E key \in GLKeys : GLKey(key)
    \/ \E a \in GLActions : GLRender(a)
    \/ \E inc \in FrameIncs : GLTrain(inc)

Spec == Init /\ [][Next]_vars

\* =========================================================================
\* Properties.  What a command does is what its handler returns in a
\* reachable state: handle_control for a Tk button, gl_keydown for an OpenGL
\* key and gl_actions for an OpenGL button, the last two in the event phase
\* of a frame.

\* the record a tracker holds right after clear() and one update at
\* iteration 0 of the initial line on the dataset m
Baseline(m) ==
    MetricsTracker_update(MetricsTracker, m.Y, Predict(m, INITIAL_S, INITIAL_I), 0)

\* the states the OpenGL key or button named key / button can leave gl in
gl_command(key, button) ==
    {gl_keydown(gl, key, seed) : seed \in Seeds}
        \cup {gl_actions(gl, ui_action(button), seed) : seed \in Seeds}

InTk == ui = "tk"
InGLEvents == ui = "gl" /\ gl.pc = "events"

\* C1: in both front ends the iteration counter is always between 0 and
\* MAX_ITER inclusive, whatever commands, ticks and frames (frames of many
\* steps included) have run.
C1_IterationWithinCap ==
    /\ tk.iteration_count \in 0..MAX_ITER
    /\ gl.iteration \in 0..MAX_ITER

\* a frame that asked for MaxStepsPerFrame steps was stopped by the cap: the
\* counter is at MAX_ITER and a whole step is still left in the accumulator
C1_Witness ==
    /\ ui = "gl"
    /\ gl.iteration = MAX_ITER
    /\ gl.step_accumulator >= AccScale

tk_training_state(st) ==
    <<st.current_slope, st.current_intercept, st.iteration_count,
      st.current_optimizer, st.metrics_tracker>>
gl_training_state(g) ==
    <<g.slope, g.intercept, g.iteration, g.optimizer, g.tracker>>

\* C3: with the counter at MAX_ITER and the engine not running, start is a
\* no-op: the running flag is not left set (in OpenGL, not past the training
\* block of the frame that takes the command), and slope, intercept,
\* iteration and metrics history are unchanged.
C3_StartAtCapIsNoOp ==
    /\ (InTk /\ tk.iteration_count = MAX_ITER /\ ~tk.animation_running) =>
         LET st == handle_control(tk, "start", 42)
         IN /\ ~st.animation_running
            /\ tk_training_state(st) = tk_training_state(tk)
    /\ (InGLEvents /\ gl.iteration = MAX_ITER /\ ~gl.training) =>
         \A started \in gl_command("t", "start") : \A inc \in FrameIncs :
            LET g == gl_train(started, inc)
            IN /\ ~g.training
               /\ gl_training_state(g) = gl_training_state(gl)

\* C4: while running, once the step that brings the counter to MAX_ITER has
\* completed, the running flag is false at the latest after the next tick
\* (Tk) or the next frame (OpenGL), and the counter stays at MAX_ITER.
C4_LeavesRunningAtCap ==
    /\ (InTk /\ tk.animation_running /\ tk.iteration_count = MAX_ITER) =>
         /\ tk.animation_job = "pending"
         /\ LET st == gradient_descent_step([tk EXCEPT !.animation_job = "expired"])
            IN ~st.animation_running /\ st.iteration_count = MAX_ITER
    /\ (ui = "gl" /\ gl.pc = "train" /\ gl.training /\ gl.iteration < MAX_ITER) =>
         \A inc \in FrameIncs : \A next_inc \in FrameIncs :
            LET reached == gl_train(gl, inc)
                after == gl_train(reached, next_inc)
            IN reached.iteration = MAX_ITER =>
                  ~after.training /\ after.iteration = MAX_ITER

C6_StepOnce ==
    /\ (InTk /\ tk.iteration_count < MAX_ITER) =>
         LET st == handle_control(tk, "step", 42)
             d == Gradients(tk.model, tk.current_slope, tk.current_intercept)
             r == OptStep([tk.current_optimizer EXCEPT !.learning_rate = LEARNING_RATE],
                          tk.current_slope, tk.current_intercept, d.d_slope, d.d_intercept)
         IN /\ st.iteration_count = tk.iteration_count + 1
            /\ st.current_optimizer = r.opt
            /\ st.current_slope = r.slope
            /\ st.current_intercept = r.intercept
            /\ Len(st.metrics_tracker.mse_history) = Len(tk.metrics_tracker.mse_history) + 1
            /\ ~st.animation_running
            /\ st.animation_job # "pending"
            /\ gradient_descent_step(st) = st
    /\ (InGLEvents /\ gl.iteration < MAX_ITER) =>
         \A g \in gl_command("s", "step") :
            LET r == compute_step(gl.model, gl.slope, gl.intercept, gl.optimizer)
            IN /\ g.iteration = gl.iteration + 1
               /\ g.optimizer = r.opt
               /\ g.slope = r.slope
               /\ g.intercept = r.intercept
               /\ Len(g.tracker.mse_history) = Len(gl.tracker.mse_history) + 1
               /\ ~g.training
               /\ \A inc \in FrameIncs : gl_train(g, inc) = g

\* the Tk engine stepped once from Idle: no timer was ever scheduled, one
\* step is counted and recorded after the baseline
C6_Witness ==
    /\ ui = "tk"
    /\ tk.iteration_count = 1
    /\ tk.animation_job = "None"
    /\ ~tk.animation_running
    /\ Len(tk.metrics_tracker.mse_history) = 2
    /\ tk.current_slope # INITIAL_S

\* C7: step with the counter at MAX_ITER changes none of slope, intercept,
\* iteration counter, optimizer accumulators and metrics history.
C7_StepAtCapIsNoOp ==
    /\ (InTk /\ tk.iteration_count = MAX_ITER) =>
         tk_training_state(handle_control(tk, "step", 42)) = tk_training_state(tk)
    /\ (InGLEvents /\ gl.iteration = MAX_ITER) =>
         \A g \in gl_command("s", "step") :
            gl_training_state(g) = gl_training_state(gl)

\* the Tk engine at the cap while still running: a step pressed here pauses
\* it and must step nothing
C7_Witness ==
    /\ ui = "tk"
    /\ tk.iteration_count = MAX_ITER
    /\ tk.animation_running
    /\ ~AtRest(tk.current_optimizer)

\* C8: after reset and after regenerate the optimizer's accumulators are
\* zero: Momentum's velocities, Adam's moments and step counter.
C8_ResetZeroesOptimizer ==
    /\ InTk =>
         \A action \in {"reset", "regen"} : \A seed \in Seeds :
            AtRest(handle_control(tk, action, seed).current_optimizer)
    /\ InGLEvents =>
         \A g \in gl_command("r", "reset") \cup gl_command("n", "regen") :
            AtRest(g.optimizer)

\* the key that selects the optimizer name
optimizer_key(name) ==
    CASE name = "SGD" -> "1" [] name = "Momentum" -> "2" [] name = "Adam" -> "3"

\* C9: switching the optimizer in any state installs an optimizer of the
\* chosen variant with all accumulators zero, and keeps slope and intercept.
C9_SwitchInstallsFresh ==
    \A name \in OptimizerNames :
       /\ InTk =>
            LET st == switch_optimizer(tk, name)
            IN /\ st.current_optimizer.kind = name
               /\ AtRest(st.current_optimizer)
               /\ st.current_slope = tk.current_slope
               /\ st.current_intercept = tk.current_intercept
       /\ InGLEvents =>
            \A g \in {gl_keydown(gl, optimizer_key(name), 42),
                      gl_actions(gl, [name |-> "set_optimizer", arg |-> name], 42)} :
               /\ g.optimizer.kind = name
               /\ g.optimizer_name = name
               /\ AtRest(g.optimizer)
               /\ g.slope = gl.slope
               /\ g.intercept = gl.intercept

\* Adam installed in the middle of an OpenGL run: steps are counted, the line
\* has moved, and the optimizer has not stepped yet
C9_Witness ==
    /\ ui = "gl"
    /\ gl.iteration > 0
    /\ gl.slope # INITIAL_S
    /\ gl.optimizer = make_optimizer("Adam")

\* C10: regenerate in any state replaces the dataset and leaves the engine
\* not running, iteration 0, slope and intercept at their initial values,
\* and a history that holds only the baseline record of the new dataset.
C10_RegenerateStartsAfresh ==
    /\ InTk =>
         \A seed \in Seeds :
            LET st == handle_control(tk, "regen", seed)
            IN /\ st.model = DataModel_generate(seed)
               /\ ~st.animation_running
               /\ st.animation_job # "pending"
               /\ st.iteration_count = 0
               /\ st.current_slope = INITIAL_S
               /\ st.current_intercept = INITIAL_I
               /\ st.metrics_tracker = Baseline(st.model)
    /\ InGLEvents =>
         \A seed \in Seeds :
            \A g \in {gl_keydown(gl, "n", seed), gl_actions(gl, ui_action("regen"), seed)} :
               /\ g.model = DataModel_generate(seed)
               /\ ~g.training
               /\ g.iteration = 0
               /\ g.slope = INITIAL_S
               /\ g.intercept = INITIAL_I
               /\ g.tracker = Baseline(g.model)

\* the Tk engine after regenerate stopped a run: a dataset no menu entry
\* loaded, the timer cancelled, iteration 0 and the one baseline record
C10_Witness ==
    /\ ui = "tk"
    /\ explored = 0
    /\ tk.model = DataModel_generate(7)
    /\ tk.model # DataModel_generate(42)
    /\ tk.animation_job = "expired"
    /\ tk.iteration_count = 0
    /\ Len(tk.metrics_tracker.mse_history) = 1

\* the Tk state after one scheduled callback fires: the one animation_job
\* holds, or one whose handle was overwritten
tk_ticks(st) ==
    {gradient_descent_step([st EXCEPT !.animation_job = "expired"]),
     gradient_descent_step([st EXCEPT !.after_orphans = IF @ > 0 THEN @ - 1 ELSE 0])}

\* C11: after pause the engine is not running and no tick is pending; while
\* it is not running, a timer callback (Tk) or a frame's training block
\* (OpenGL) changes none of slope, intercept, iteration, optimizer and
\* metrics history, and sets the running flag no more than a command does.
C11_PauseStopsStepping ==
    /\ InTk =>
         LET st == handle_control(tk, "pause", 42)
         IN /\ ~st.animation_running
            /\ st.animation_job # "pending"
            /\ tk_training_state(st) = tk_training_state(tk)
            /\ \A t \in tk_ticks(st) :
                  /\ ~t.animation_running
                  /\ tk_training_state(t) = tk_training_state(st)
    /\ (InTk /\ ~tk.animation_running) =>
         \A t \in tk_ticks(tk) :
            /\ ~t.animation_running
            /\ tk_training_state(t) = tk_training_state(tk)
    /\ InGLEvents =>
         \A g \in gl_command("p", "pause") : \A inc \in FrameIncs :
            /\ ~g.training
            /\ gl_training_state(g) = gl_training_state(gl)
            /\ gl_train(g, inc) = g
    /\ (ui = "gl" /\ ~gl.training) =>
         \A inc \in FrameIncs : gl_train(gl, inc) = gl

\* the Tk engine paused in the middle of a run: a timer had been scheduled,
\* steps are counted and the cap is not reached
C11_Witness ==
    /\ ui = "tk"
    /\ ~tk.animation_running
    /\ tk.animation_job = "expired"
    /\ tk.iteration_count > 0
    /\ tk.iteration_count < MAX_ITER

\* C12: every logical step (command, tick or frame) takes both gradients
\* from the slope and intercept it starts from, and its new slope and
\* intercept are the pair one optimizer.step returns for those gradients.
C12_GradientsFromSnapshot ==
    /\ (InTk /\ tk.iteration_count < MAX_ITER) =>
         LET st == run_one_iteration(tk).st
             d == Gradients(tk.model, tk.current_slope, tk.current_intercept)
             r == OptStep([tk.current_optimizer EXCEPT !.learning_rate = LEARNING_RATE],
                          tk.current_slope, tk.current_intercept, d.d_slope, d.d_intercept)
         IN /\ st.current_slope = r.slope
            /\ st.current_intercept = r.intercept
            /\ st.current_optimizer = r.opt
    /\ (ui = "gl" /\ gl.iteration < MAX_ITER) =>
         LET g == gl_logical_step(gl)
             d == Gradients(gl.model, gl.slope, gl.intercept)
             r == OptStep([gl.optimizer EXCEPT !.learning_rate = LEARNING_RATE],
                          gl.slope, gl.intercept, d.d_slope, d.d_intercept)
         IN /\ g.slope = r.slope
            /\ g.intercept = r.intercept
            /\ g.optimizer = r.opt

\* an OpenGL run one step in, from which the next step starts with a slope
\* and an intercept that have both moved
C12_Witness ==
    /\ ui = "gl"
    /\ gl.iteration > 0
    /\ gl.iteration < MAX_ITER
    /\ gl.slope # INITIAL_S
    /\ gl.intercept # INITIAL_I

\* k presses of the step key, one after another; once a press steps
\* nothing (the cap), the presses after it step nothing either
RECURSIVE single_steps(_, _)
single_steps(g, k) ==
    IF k = 0 THEN g
    ELSE LET pressed == gl_step(g)
         IN IF pressed.iteration = g.iteration THEN pressed
            ELSE single_steps(pressed, k - 1)

\* the steps a training block asks for when the clock adds inc
steps_asked(g, inc) == Min((g.step_accumulator + inc) \div AccScale, MaxStepsPerFrame)

\* C13: a training block that runs k logical steps in one frame leaves slope,
\* intercept, iteration, optimizer and metrics history as k single steps
\* taken one after another leave them (a step at the cap being no step).
C13_FrameEqualsSingleSteps ==
    (ui = "gl" /\ gl.training /\ gl.iteration < MAX_ITER) =>
       \A inc \in FrameIncs :
          gl_training_state(gl_train(gl, inc))
             = gl_training_state(single_steps(gl, steps_asked(gl, inc)))

\* a running OpenGL engine entering a training block with room for two steps
\* before the cap
C13_Witness ==
    /\ ui = "gl"
    /\ gl.pc = "train"
    /\ gl.training
    /\ gl.iteration + 2 <= MAX_ITER
    /\ \E inc \in FrameIncs : steps_asked(gl, inc) >= 2

\* slope and intercept of a Tk state and of an OpenGL state
tk_line(st) == <<st.current_slope, st.current_intercept>>
gl_line(g) == <<g.slope, g.intercept>>

\* C14: pause, optimizer switch, dataset switch, display refresh, delay
\* change and export leave slope and intercept as they are; start leaves
\* them as they are apart from the step it runs at once in Tk when the engine
\* is idle below the cap, which is one step of run_one_iteration.
C14_LineMovesOnlyByStepOrReset ==
    /\ InTk =>
         /\ tk_line(handle_control(tk, "pause", 42)) = tk_line(tk)
         /\ \A name \in OptimizerNames : tk_line(switch_optimizer(tk, name)) = tk_line(tk)
         /\ \A dataset_type \in DatasetTypes : \A seed \in LoadSeeds :
               tk_line(load_dataset(tk, dataset_type, seed)) = tk_line(tk)
         /\ tk_line(refresh_visual_state(tk)) = tk_line(tk)
         /\ tk_line(export_training_state(tk).st) = tk_line(tk)
         /\ tk_line(handle_control(tk, "start", 42))
               = IF tk.animation_running THEN tk_line(tk)
                                         ELSE tk_line(run_one_iteration(tk).st)
    /\ InGLEvents =>
         /\ \A g \in gl_command("t", "start") \cup gl_command("p", "pause")
                       \cup gl_command("SPACE", "none") : gl_line(g) = gl_line(gl)
         /\ \A name \in OptimizerNames :
               /\ gl_line(gl_keydown(gl, optimizer_key(name), 42)) = gl_line(gl)
               /\ gl_line(gl_actions(gl, [name |-> "set_optimizer", arg |-> name], 42))
                     = gl_line(gl)
         /\ \A d \in SliderDelays :
               gl_line(gl_actions(gl, [name |-> "set_delay_ms", arg |-> d], 42)) = gl_line(gl)

\* a dataset was switched in the middle of a Tk run: the history is empty,
\* steps are counted and the line is where the steps left it
C14_Witness ==
    /\ ui = "tk"
    /\ tk.metrics_tracker.mse_history = <<>>
    /\ tk.iteration_count > 0
    /\ tk_line(tk) # <<INITIAL_S, INITIAL_I>>

\* ------------------------------------------ MetricsTracker, called directly
InTracker == unit.mode = "tracker"

history_lengths(tr) ==
    {Len(tr.mse_history), Len(tr.mae_history), Len(tr.r2_history), Len(tr.iteration_history)}

\* C15: after N calls of update since construction or the last clear(), every
\* history of a MetricsTracker has length N; clear() leaves every history with
\* length 0 and the iteration cursor at 0, and get_current() right after
\* clear(), or on a fresh tracker, returns (0, 0, 0).
C15_HistoriesCountUpdates ==
    InTracker =>
       /\ history_lengths(unit.tracker) = {unit.updates}
       /\ history_lengths(MetricsTracker_clear(unit.tracker)) = {0}
       /\ MetricsTracker_clear(unit.tracker).current_iteration = 0
       /\ MetricsTracker_get_current(MetricsTracker_clear(unit.tracker)) = <<0, 0, 0>>
       /\ MetricsTracker_get_current(MetricsTracker) = <<0, 0, 0>>

\* two updates since the last clear(), the last one with a non-zero error
C15_Witness ==
    InTracker /\ unit.updates = 2 /\ unit.tracker.current_iteration = 1
              /\ MetricsTracker_get_current(unit.tracker)[1] > 0

\* ss_tot of update: the squared distance of y_true from its mean
SS_tot(y_true) ==
    LET mean == RDiv(SumSeq(y_true), Len(y_true))
    IN SumSeq([i \in 1..Len(y_true) |-> (y_true[i] - mean) * (y_true[i] - mean)])

Last(history) == history[Len(history)]

\* C16: update never divides by zero: called with a y_true whose SS_tot is 0
\* (all true values identical) it records an R^2 of 0 whatever y_pred is, and
\* still appends one record to every history.
C16_ConstantTruthRecordsZero ==
    InTracker =>
       \A y_true \in UnitVectors : \A y_pred \in UnitVectors :
          SS_tot(y_true) = 0 =>
             LET updated == MetricsTracker_update(unit.tracker, y_true, y_pred, unit.updates)
             IN /\ Last(updated.r2_history) = 0
                /\ history_lengths(updated) = {unit.updates + 1}
                /\ Last(updated.mse_history) = mean_squared_error(y_true, y_pred)

\* the last update had identical true values and a prediction away from them
C16_Witness ==
    /\ InTracker /\ unit.updates = 2
    /\ SS_tot(unit.y_true) = 0 /\ unit.y_pred # unit.y_true
    /\ Last(unit.tracker.r2_history) = 0 /\ Last(unit.tracker.mse_history) > 0

\* a prediction that is the mean of y_true at every point
mean_prediction(y_true) ==
    [i \in 1..Len(y_true) |-> RDiv(SumSeq(y_true), Len(y_true))]

Updated == InTracker /\ unit.updates > 0

\* C17 as stated: for every y_true the recorded R^2 is 1.0 on a perfect fit and
\* 0.0 on a prediction equal to the mean of y_true.
C17_PerfectFitIsOne ==
    Updated =>
       /\ unit.y_pred = unit.y_true => Last(unit.tracker.r2_history) = Scale
       /\ unit.y_pred = mean_prediction(unit.y_true) => Last(unit.tracker.r2_history) = 0

\* C17: the recorded R^2 is 1.0 on a perfect fit when the values of y_true are
\* not all identical, and 0 on a perfect fit when they are (SS_tot = 0); it
\* is 0.0 on a prediction equal to the mean of y_true, for every y_true.
C17_PerfectFitIsOneUnlessConstant ==
    Updated =>
       /\ (unit.y_pred = unit.y_true /\ SS_tot(unit.y_true) # 0)
             => Last(unit.tracker.r2_history) = Scale
       /\ (unit.y_pred = unit.y_true /\ SS_tot(unit.y_true) = 0)
             => Last(unit.tracker.r2_history) = 0
       /\ unit.y_pred = mean_prediction(unit.y_true) => Last(unit.tracker.r2_history) = 0

\* a perfect fit of varying true values after a prediction at the mean
C17_Witness ==
    /\ Updated /\ unit.updates = 2
    /\ unit.y_pred = unit.y_true /\ SS_tot(unit.y_true) # 0
    /\ unit.tracker.r2_history = <<0, Scale>>
    /\ unit.tracker.mse_history[1] > 0

Elements(history) == {history[i] : i \in 1..Len(history)}

\* C18: summary() on an empty history returns the empty result; otherwise
\* iterations is the history length, final_mse, final_mae and final_r2 are the
\* last recorded values, and min_mse and max_mse are the least and the
\* greatest element of the whole MSE history.
C18_SummaryOfHistory ==
    InTracker =>
       LET tr == unit.tracker
           s  == MetricsTracker_summary(tr)
       IN IF tr.mse_history = <<>> THEN s = <<>>
          ELSE /\ s.iterations = Len(tr.mse_history)
               /\ s.final_mse = Last(tr.mse_history)
               /\ s.final_mae = Last(tr.mae_history)
               /\ s.final_r2 = Last(tr.r2_history)
               /\ s.min_mse \in Elements(tr.mse_history)
               /\ s.max_mse \in Elements(tr.mse_history)
               /\ \A mse \in Elements(tr.mse_history) : s.min_mse <= mse /\ mse <= s.max_mse

\* a history whose last MSE is its minimum and not its maximum
C18_Witness ==
    /\ InTracker /\ unit.updates = 2
    /\ unit.tracker.mse_history[1] > unit.tracker.mse_history[2]
    /\ MetricsTracker_summary(unit.tracker).max_mse = unit.tracker.mse_history[1]

\* ---------------------------------------------- optimizers, called directly
InOptimizers == unit.mode = "optimizers"

\* the instances at rest: freshly created, the instance under test just
\* reset, or the instance under test while its accumulators and t are 0
rest_instances ==
    {make_optimizer(name) : name \in OptimizerNames}
       \cup (IF HasReset(unit.optimizer) THEN {ResetIfAble(unit.optimizer)} ELSE {})
       \cup (IF AtRest(unit.optimizer) THEN {unit.optimizer} ELSE {})

\* C19: an optimizer of any variant (SGD, Momentum, Adam) in its rest state,
\* freshly created or just reset, returns exactly (slope, intercept) from one
\* call step(slope, intercept, 0, 0), for every slope and intercept.
C19_ZeroGradientFromRest ==
    InOptimizers =>
       \A o \in rest_instances : \A slope \in UnitSlopes : \A intercept \in UnitIntercepts :
          /\ AtRest(o)
          /\ step_out(OptStep(o, slope, intercept, 0, 0)) = <<slope, intercept>>

\* Adam stepped once with zero gradients since it was reset or created after
\* an earlier step, returning the pair it was given
C19_Witness ==
    /\ InOptimizers /\ unit.steps = 2
    /\ unit.optimizer.kind = "Adam" /\ unit.optimizer.t = 1
    /\ unit.args[3] = 0 /\ unit.args[4] = 0
    /\ unit.optimizer_out = <<unit.args[1], unit.args[2]>>
    /\ unit.sgd_out = unit.optimizer_out

\* C20: Momentum constructed with momentum = 0 and SGD with the same learning
\* rate return the same (slope, intercept) at every step of every sequence of
\* step(slope, intercept, d_slope, d_intercept) calls made on both.
C20_MomentumZeroIsSGD ==
    InOptimizers =>
       /\ unit.momentum0.momentum = 0
       /\ unit.momentum0.learning_rate = unit.sgd.learning_rate
       /\ unit.steps > 0 => unit.momentum0_out = unit.sgd_out
       /\ \A slope \in UnitSlopes : \A intercept \in UnitIntercepts :
             \A d_slope \in UnitGradients : \A d_intercept \in UnitGradients :
                step_out(Momentum_step(unit.momentum0, slope, intercept, d_slope, d_intercept))
                   = step_out(SGD_step(unit.sgd, slope, intercept, d_slope, d_intercept))

\* the second step of a sequence, both steps with non-zero gradients: the
\* Momentum instance carries a velocity and the pair has moved
C20_Witness ==
    /\ InOptimizers /\ unit.steps = 2
    /\ unit.momentum0.velocity_slope # 0 /\ unit.momentum0.velocity_intercept # 0
    /\ unit.momentum0_out = unit.sgd_out
    /\ unit.sgd_out # <<unit.args[1], unit.args[2]>>
    /\ unit.args[3] # unit.args[4]

\* C21: reset() can be called on an optimizer of every variant without an
\* error: on Momentum it sets both velocity components to 0, on Adam it sets m
\* and v of both parameters and t to 0, and on SGD it returns having changed
\* nothing.
C21_ResetOnEveryVariant ==
    InOptimizers =>
       \A o \in {unit.sgd, unit.momentum0, unit.optimizer} :
          LET called == Optimizer_reset(o)
          IN /\ called.raised = "None"
             /\ AtRest(called.opt)
             /\ called.opt.kind = o.kind
             /\ called.opt.learning_rate = o.learning_rate
             /\ o.kind = "SGD" => called.opt = o

\* what Adam keeps for the slope, and for the intercept; t is one counter
Adam_slope_side(o) == <<o.m_slope, o.v_slope, o.t>>
Adam_intercept_side(o) == <<o.m_intercept, o.v_intercept, o.t>>

\* other values the accumulators of an Adam instance may hold, and other
\* values a parameter passed to step may have
OtherMoments == {0, 8 * Scale}
OtherCounts == {0, 9}
OtherParams == {0, Scale}
OtherGradients == UnitGradients \ {0}

InAdam == InOptimizers /\ unit.optimizer.kind = "Adam"

\* the slope a step returns and what it keeps for the slope are the same
\* whatever the intercept argument, its gradient and the intercept's moments
slope_unaffected(o) ==
    \A slope \in UnitSlopes : \A d_slope \in UnitGradients :
       LET a == Adam_step(o, slope, INITIAL_I, d_slope, 0)
       IN \A intercept \in OtherParams : \A d_intercept \in OtherGradients :
             \A m \in OtherMoments : \A v \in OtherMoments :
                LET b == Adam_step([o EXCEPT !.m_intercept = m, !.v_intercept = v],
                                   slope, intercept, d_slope, d_intercept)
                IN a.slope = b.slope /\ Adam_slope_side(a.opt) = Adam_slope_side(b.opt)

intercept_unaffected(o) ==
    \A intercept \in UnitIntercepts : \A d_intercept \in UnitGradients :
       LET a == Adam_step(o, INITIAL_S, intercept, 0, d_intercept)
       IN \A slope \in OtherParams : \A d_slope \in OtherGradients :
             \A m \in OtherMoments : \A v \in OtherMoments :
                LET b == Adam_step([o EXCEPT !.m_slope = m, !.v_slope = v],
                                   slope, intercept, d_slope, d_intercept)
                IN /\ a.intercept = b.intercept
                   /\ Adam_intercept_side(a.opt) = Adam_intercept_side(b.opt)

\* the pair a step returns changes with the value of the accumulator: the
\* accumulator is read for the slope, resp. for the intercept
read_for(o, accumulator, values, out) ==
    \E value \in values :
       \E slope \in UnitSlopes : \E intercept \in UnitIntercepts :
          Adam_step([o EXCEPT ![accumulator] = value], slope, intercept, 0, 0)[out]
             # Adam_step(o, slope, intercept, 0, 0)[out]

shared(o, accumulator, values) ==
    read_for(o, accumulator, values, "slope") /\ read_for(o, accumulator, values, "intercept")

\* C22 as stated: in Adam none of t, m and v is shared between the slope and
\* the intercept, and the slope returned depends only on the slope inputs and
\* slope gradients, the intercept returned only on the intercept's.
C22_NothingShared ==
    InAdam =>
       /\ slope_unaffected(unit.optimizer)
       /\ intercept_unaffected(unit.optimizer)
       /\ \A m \in {"m_slope", "m_intercept", "v_slope", "v_intercept"} :
             ~shared(unit.optimizer, m, OtherMoments)
       /\ ~shared(unit.optimizer, "t", OtherCounts)

\* C22: Adam keeps the moments m and v separately for slope and intercept,
\* none of the four read for the other parameter, and keeps one step counter
\* t, the number of step calls since the instance was at rest, read for
\* both; in every sequence of step calls the slope returned depends only on
\* the slope inputs and slope gradients, the intercept returned only on the
\* intercept inputs and intercept gradients.
C22_MomentsSeparateCounterCommon ==
    InAdam =>
       /\ slope_unaffected(unit.optimizer)
       /\ intercept_unaffected(unit.optimizer)
       /\ \A m \in {"m_slope", "m_intercept", "v_slope", "v_intercept"} :
             ~shared(unit.optimizer, m, OtherMoments)
       /\ unit.optimizer.t <= unit.steps

\* Adam after two steps with different gradients for the two parameters, the
\* counter read for both
C22_Witness ==
    /\ InAdam /\ unit.optimizer.t = 2
    /\ unit.optimizer.m_slope # 0 /\ unit.optimizer.m_intercept # 0
    /\ unit.optimizer.m_slope # unit.optimizer.m_intercept
    /\ shared(unit.optimizer, "t", OtherCounts)

\* ---------------------------------------------- generation, called directly
InGeneration == unit.mode = "generation"
Generated == InGeneration /\ unit.generations > 0

\* N <= 0 or a negative noise level
InvalidConfiguration(config) == config[1] <= 0 \/ config[2] < 0

\* the points a training step reads: N of them, none missing
WellFormed(m) == m.N > 0 /\ Len(m.X) = m.N /\ Len(m.Y) = m.N

\* C23: generation with an invalid configuration (N <= 0, N = 0 included, or a
\* negative noise level) fails with an error at generation time and returns
\* no dataset, and the model keeps a well-formed dataset for training.
C23_InvalidConfigurationRejected ==
    (Generated /\ InvalidConfiguration(unit.config)) =>
       /\ unit.raised # "None"
       /\ unit.data = <<>>
       /\ WellFormed(unit.model)

ValidCounts == {n \in UnitCounts : n > 0}
ValidNoises == {s \in UnitNoises : s >= 0}

\* C24: generation is deterministic in its seed: a generator called with a
\* non-null seed returns the same X and Y as any other call of it with that
\* seed and the same shape parameters, whatever generator calls were made in
\* between.
C24_SeedDeterminesDataset ==
    InGeneration =>
       /\ \A seed \in Seeds : \A n_points \in ValidCounts : \A noise_std \in ValidNoises :
             /\ DataGenerator_linear(unit.rng, n_points, noise_std, seed).data
                   = DataGenerator_linear(RandomState(42), n_points, noise_std, seed).data
             /\ \A entropy \in Seeds :
                   LET here  == DataModel_generate_call(unit.model, unit.rng, n_points,
                                                        noise_std, seed, entropy).model
                       first == DataModel_generate_call(DataModel_generate(42), RandomState(42),
                                                        n_points, noise_std, seed, 42).model
                   IN here.X = first.X /\ here.Y = first.Y
       /\ (/\ unit.generator = "DataGenerator.linear"
           /\ unit.raised = "None" /\ unit.config[3] # NoSeed) =>
             unit.data = DataGenerator_linear(RandomState(42), unit.config[1], unit.config[2],
                                              unit.config[3]).data

\* a seeded call of DataGenerator.linear that followed another generator
\* call, the generator then N_POINTS draws past its seeding
C24_Witness ==
    /\ InGeneration /\ unit.generations = 2
    /\ unit.generator = "DataGenerator.linear" /\ unit.raised = "None"
    /\ unit.config[1] = N_POINTS /\ unit.config[2] > 0 /\ unit.config[3] = 7
    /\ unit.rng = [seed |-> 7, drawn |-> N_POINTS]
    /\ unit.data # DataGenerator_linear(RandomState(42), N_POINTS, unit.config[2], 42).data

\* ------------------------------------------------------- dataset and bounds
\* N and the bounds of a model are those of the points it holds
BoundsOfPoints(m) ==
    /\ m.N = Len(m.X) /\ m.N = Len(m.Y)
    /\ m.X_MIN \in Elements(m.X) /\ m.X_MAX \in Elements(m.X)
    /\ m.Y_MIN \in Elements(m.Y) /\ m.Y_MAX \in Elements(m.Y)
    /\ \A x \in Elements(m.X) : m.X_MIN <= x /\ x <= m.X_MAX
    /\ \A y \in Elements(m.Y) : m.Y_MIN <= y /\ y <= m.Y_MAX
    /\ m.Y_RANGE = IF m.Y_MAX - m.Y_MIN > 1 THEN m.Y_MAX - m.Y_MIN ELSE 1

\* C25: once regenerate (DataModel.generate) or a dataset switch
\* (load_dataset) has finished, N, X_MIN, X_MAX, Y_MIN, Y_MAX and Y_RANGE of
\* the model are those of the X and Y it holds; no step, metrics update or
\* coordinate mapping finds bounds of the old dataset with points of the new.
C25_BoundsDescribeDataset ==
    /\ InTk =>
          /\ BoundsOfPoints(tk.model)
          /\ \A seed \in Seeds : BoundsOfPoints(handle_control(tk, "regen", seed).model)
          /\ \A dataset_type \in DatasetTypes : \A seed \in LoadSeeds :
                BoundsOfPoints(load_dataset(tk, dataset_type, seed).model)
    /\ ui = "gl" =>
          /\ BoundsOfPoints(gl.model)
          /\ \A g \in gl_command("n", "regen") : BoundsOfPoints(g.model)

\* a metrics record made on a dataset that load_dataset put in place
C25_Witness ==
    /\ InTk /\ tk.metrics_tracker.mse_history # <<>>
    /\ \A seed \in Seeds : tk.model.Y # DataModel_generate(seed).Y

\* C26: Y_RANGE of the model is strictly positive, at least the epsilon
\* floor, in every state, also when the Y values of the dataset are all equal,
\* so the division by Y_RANGE in the data-to-canvas mapping is never by zero.
C26_YRangePositive ==
    InGeneration =>
       /\ unit.model.Y_RANGE >= 1
       /\ (unit.raised = "None" /\ unit.generator = "DataModel.generate") =>
             unit.model.Y_RANGE >= unit.model.Y_MAX - unit.model.Y_MIN
       /\ \A Y \in UnitVectors : DataModel_bounds(linspace(Len(Y)), Y).Y_RANGE >= 1
       /\ \A dataset_type \in DatasetTypes : \A seed \in Seeds :
             load_dataset(tk, dataset_type, seed).model.Y_RANGE >= 1

\* generate has left a dataset of one point, its Y_RANGE at the floor
C26_Witness ==
    /\ InGeneration /\ unit.raised = "None" /\ unit.generator = "DataModel.generate"
    /\ unit.model.N = 1 /\ unit.model.Y_MAX = unit.model.Y_MIN
    /\ unit.model.Y_RANGE = 1

\* --------------------------------------------------------------- Tk timers
\* the gradient_descent_step callbacks scheduled and not yet fired or
\* cancelled: the one animation_job holds and those whose handle was lost
pending_callbacks(st) ==
    (IF st.animation_job = "pending" THEN 1 ELSE 0) + st.after_orphans

\* C27: in the Tk front end at most one gradient_descent_step callback is
\* pending at any time, under every interleaving of start, pause, step, reset
\* and regen commands and timer firings, and a firing advances the run by no
\* more than one logical step.
C27_OneTimerPending ==
    InTk =>
       /\ pending_callbacks(tk) <= 1
       /\ \A action \in TkActions : \A seed \in Seeds :
             pending_callbacks(handle_control(tk, action, seed)) <= 1
       /\ tk.animation_job = "pending" =>
             LET fired == gradient_descent_step([tk EXCEPT !.animation_job = "expired"])
             IN /\ pending_callbacks(fired) <= 1
                /\ fired.iteration_count <= tk.iteration_count + 1

\* a run whose callback has fired and scheduled the next one
C27_Witness ==
    /\ InTk /\ tk.animation_running /\ tk.animation_job = "pending"
    /\ tk.iteration_count > 1
    /\ pending_callbacks(tk) = 1

\* ---------------------------------------------------------- metrics records
StrictlyIncreasing(history) ==
    \A i \in 1..Len(history) : \A j \in 1..Len(history) : i < j => history[i] < history[j]

\* C28: between two clears of the metrics tracker the iteration numbers in
\* iteration_history are strictly increasing: every record carries an
\* iteration number not recorded before.
C28_IterationNumbersIncrease ==
    /\ InTk => StrictlyIncreasing(tk.metrics_tracker.iteration_history)
    /\ ui = "gl" => StrictlyIncreasing(gl.tracker.iteration_history)

\* C29: the display-only UI actions (the residuals toggle, the formulas
\* toggle, a change of the delay) leave the core state as it was: slope,
\* intercept, iteration counter, optimizer accumulators and metrics history,
\* to which no record is appended.
C29_DisplayActionsKeepCore ==
    /\ InTk => tk_training_state(refresh_visual_state(tk)) = tk_training_state(tk)
    /\ InGLEvents =>
          \A a \in {ui_action("toggle_formulas"), ui_action("show_residuals")}
                      \cup {[name |-> "set_delay_ms", arg |-> d] : d \in SliderDelays} :
             \A seed \in Seeds :
                gl_training_state(gl_actions(gl, a, seed)) = gl_training_state(gl)

\* the MSE of the line (slope, intercept) on the dataset of model m
mse_of_line(m, slope, intercept) == mean_squared_error(m.Y, Predict(m, slope, intercept))

\* C30: whenever the metrics history is not empty, the last recorded MSE, the
\* one get_current returns, is the mean squared error of the current slope
\* and intercept on the current dataset.
C30_CurrentMSEOfCurrentLine ==
    /\ (InTk /\ tk.metrics_tracker.mse_history # <<>>) =>
          MetricsTracker_get_current(tk.metrics_tracker)[1]
             = mse_of_line(tk.model, tk.current_slope, tk.current_intercept)
    /\ (ui = "gl" /\ gl.tracker.mse_history # <<>>) =>
          MetricsTracker_get_current(gl.tracker)[1]
             = mse_of_line(gl.model, gl.slope, gl.intercept)

====
